---- MODULE Spec2Model ----
(***************************************************************************)
(* A model of the RAIS IIIF image server's request handler                 *)
(* (src/src/rais-server/iiif_handler.go) and of the IIIF size parser       *)
(* (src/unnamed/part_001, package iiif).                                   *)
(*                                                                         *)
(* Strings and byte slices are sequences of one-character strings, so that *)
(* slicing, splitting, concatenation and regular-expression matching are   *)
(* computed on characters as the Go code computes them.                    *)
(***************************************************************************)
EXTENDS Integers, Sequences, FiniteSets, TLC

\* ------------------------------------------------------------------ bounds
\* Largest dimension / percentage written into a size string.
MaxDim == 11
\* Longest free-form size string (over SizeAlphabet) handed to StringToSize.
MaxRawLen == 3
\* Number of pieces an override document is put together from.
MaxTokens == 2
\* Number of body chunks the encoder writes for a whole image.
MaxChunks == 2

\* ------------------------------------------------------ strings (Go: string)
Digits == <<"0", "1", "2", "3", "4", "5", "6", "7", "8", "9">>

IsDigit(c) == \E i \in 1..10 : Digits[i] = c

DigitVal(c) == (CHOOSE i \in 1..10 : Digits[i] = c) - 1

\* strings.HasPrefix
HasPrefix(s, pre) == Len(s) >= Len(pre) /\ SubSeq(s, 1, Len(pre)) = pre

\* strings.Index / bytes.Index: 0-based index of the first occurrence, -1 if none
Index(s, sep) ==
  LET hits == {i \in 0..(Len(s) - Len(sep)) : SubSeq(s, i + 1, i + Len(sep)) = sep}
  IN IF hits = {} THEN -1 ELSE CHOOSE i \in hits : \A j \in hits : i <= j

\* strings.Split(s, sep) for a one-character separator: always at least one piece
RECURSIVE Split(_, _)
Split(s, sep) ==
  LET i == Index(s, <<sep>>)
  IN IF i < 0 THEN <<s>>
     ELSE <<SubSeq(s, 1, i)>> \o Split(SubSeq(s, i + 2, Len(s)), sep)

\* strconv.Itoa for n >= 0 (used to write the wire strings, not by the server)
RECURSIVE Itoa(_)
Itoa(n) == IF n < 10 THEN <<Digits[n + 1]>> ELSE Itoa(n \div 10) \o <<Digits[(n % 10) + 1]>>

RECURSIVE DecVal(_)
DecVal(ds) == IF ds = <<>> THEN 0 ELSE 10 * DecVal(SubSeq(ds, 1, Len(ds) - 1)) + DigitVal(ds[Len(ds)])

AllDigits(ds) == \A i \in 1..Len(ds) : IsDigit(ds[i])

\* strconv.Atoi with the error dropped (`v, _ = strconv.Atoi(s)`): an optional
\* sign and then one or more decimal digits; anything else is a syntax error,
\* for which Atoi returns 0.  The strings of the model are far too short to
\* leave the range of int.
Atoi(s) ==
  LET signed == Len(s) > 0 /\ s[1] \in {"+", "-"}
      ds == IF signed THEN Tail(s) ELSE s
  IN IF ds = <<>> \/ ~AllDigits(ds) THEN 0
     ELSE IF signed /\ s[1] = "-" THEN 0 - DecVal(ds) ELSE DecVal(ds)

RECURSIVE Pow10(_)
Pow10(k) == IF k = 0 THEN 1 ELSE 10 * Pow10(k - 1)

\* A float64 percentage is kept as an integer in units of 1/PctScale: the
\* percentages of the model are written with at most one fractional digit.
PctScale == Pow10(1)

\* strconv.ParseFloat(s, 64) with the error dropped, on the decimal notation
\* the alphabet of the model can write: an optional sign, digits with at most
\* one ".", at least one digit.  Anything else is a syntax error and gives 0.
ParseFloat(s) ==
  LET signed == Len(s) > 0 /\ s[1] \in {"+", "-"}
      body == IF signed THEN Tail(s) ELSE s
      dot == Index(body, <<".">>)
      ip == IF dot < 0 THEN body ELSE SubSeq(body, 1, dot)
      fp == IF dot < 0 THEN <<>> ELSE SubSeq(body, dot + 2, Len(body))
      ok == AllDigits(ip) /\ AllDigits(fp) /\ Len(ip) + Len(fp) > 0
      mag == DecVal(ip) * PctScale + (DecVal(fp) * PctScale) \div Pow10(Len(fp))
  IN IF ~ok THEN 0 ELSE IF signed /\ s[1] = "-" THEN 0 - mag ELSE mag

\* --------------------------------------------------- package iiif: size.go
STNone == 0
STFull == 1
STScaleToWidth == 2
STScaleToHeight == 3
STScalePercent == 4
STExact == 5
STBestFit == 6

SizeTypes == {STNone, STFull, STScaleToWidth, STScaleToHeight, STScalePercent, STExact, STBestFit}

\* type Size struct; a Go struct literal leaves unnamed fields zero
Size(t, pct, w, h) == [Type |-> t, Percent |-> pct, W |-> w, H |-> h]

sFull == <<"f", "u", "l", "l">>
sPct == <<"p", "c", "t", ":">>

\* The outcome of a call: a returned value, or a run-time panic.
Returned(v) == [panic |-> FALSE, value |-> v]
Panicked == [panic |-> TRUE]

\* StringToSize with the "!" left in place before the split (p = p[1:] lost).
StringToSize_BangKept(p) ==
  IF p = sFull THEN Returned(Size(STFull, 0, 0, 0))
  ELSE IF Len(p) > 4 /\ SubSeq(p, 1, 4) = sPct
    THEN Returned(Size(STScalePercent, ParseFloat(SubSeq(p, 5, Len(p))), 0, 0))
  ELSE IF Len(p) < 1 THEN Panicked
  ELSE
    LET bang == SubSeq(p, 1, 1) = <<"!">>
        vals == Split(p, ",")
    IN IF Len(vals) < 2 THEN Panicked
       ELSE LET t == IF bang THEN STBestFit
                     ELSE IF vals[1] = <<>> THEN STScaleToHeight
                     ELSE IF vals[2] = <<>> THEN STScaleToWidth
                     ELSE STExact
            IN Returned(Size(t, 0, Atoi(vals[1]), Atoi(vals[2])))

\* func StringToSize(p string) Size.  p[0:1] panics on the empty string (slice
\* bounds out of range) and vals[1] panics when p holds no comma (index out of
\* range); the assignment to s.W before it is lost with the panic.
StringToSize(p) ==
  IF p = sFull THEN Returned(Size(STFull, 0, 0, 0))
  ELSE IF Len(p) > 4 /\ SubSeq(p, 1, 4) = sPct
    THEN Returned(Size(STScalePercent, ParseFloat(SubSeq(p, 5, Len(p))), 0, 0))
  ELSE IF Len(p) < 1 THEN Panicked
  ELSE
    LET bang == SubSeq(p, 1, 1) = <<"!">>
        q == IF bang THEN SubSeq(p, 2, Len(p)) ELSE p
        vals == Split(q, ",")
    IN IF Len(vals) < 2 THEN Panicked
       ELSE LET t == IF bang THEN STBestFit
                     ELSE IF vals[1] = <<>> THEN STScaleToHeight
                     ELSE IF vals[2] = <<>> THEN STScaleToWidth
                     ELSE STExact
            IN Returned(Size(t, 0, Atoi(vals[1]), Atoi(vals[2])))

\* Valid with Exact / BestFit asking for one positive dimension only.
Valid_EitherDimension(s) ==
  CASE s.Type = STFull -> TRUE
    [] s.Type = STScaleToWidth -> s.W > 0
    [] s.Type = STScaleToHeight -> s.H > 0
    [] s.Type = STScalePercent -> s.Percent > 0
    [] s.Type \in {STExact, STBestFit} -> s.W > 0 \/ s.H > 0
    [] OTHER -> FALSE

\* func (s Size) Valid() bool
Valid(s) ==
  CASE s.Type = STFull -> TRUE
    [] s.Type = STScaleToWidth -> s.W > 0
    [] s.Type = STScaleToHeight -> s.H > 0
    [] s.Type = STScalePercent -> s.Percent > 0
    [] s.Type \in {STExact, STBestFit} -> s.W > 0 /\ s.H > 0
    [] OTHER -> FALSE

\* ------------------------------------------------------- size wire strings
\* The characters free-form size strings are written with.
SizeAlphabet == {"!", ",", "0", "5", "-", ".", "a"}

RECURSIVE StringsUpTo(_, _)
StringsUpTo(alphabet, n) ==
  IF n = 0 THEN {<<>>}
  ELSE LET shorter == StringsUpTo(alphabet, n - 1)
       IN shorter \cup {Append(s, c) : s \in shorter, c \in alphabet}

RawStrings == StringsUpTo(SizeAlphabet, MaxRawLen)

\* One dimension of a "w,h" pair as a client writes it: a number, nothing,
\* a negative number, or something that is no number.
DimToks ==
  {[cls |-> "num", n |-> k] : k \in 0..MaxDim}
    \cup {[cls |-> "neg", n |-> k] : k \in 1..2}
    \cup {[cls |-> "empty"]}
    \cup {[cls |-> "junk", txt |-> t] : t \in {<<"a">>, <<"1", "a">>}}

RenderDim(d) ==
  CASE d.cls = "num" -> Itoa(d.n)
    [] d.cls = "neg" -> <<"-">> \o Itoa(d.n)
    [] d.cls = "empty" -> <<>>
    [] d.cls = "junk" -> d.txt

\* The size segments of the IIIF wire syntax, and free-form strings.
SizeForms ==
  {[kind |-> "full"]}
    \cup {[kind |-> "pct", ip |-> i, fp |-> f] : i \in 0..MaxDim, f \in {-1, 0, 5}}
    \cup {[kind |-> "pctdim", n |-> d] : d \in DimToks}
    \cup {[kind |-> "pair", bang |-> b, w |-> w, h |-> h] :
            b \in BOOLEAN, w \in DimToks, h \in DimToks}
    \cup {[kind |-> "raw", txt |-> t] : t \in RawStrings}

\* The wire string of a form.  A "pct" form with fp = -1 has no fraction.
Render(f) ==
  CASE f.kind = "full" -> sFull
    [] f.kind = "pct" ->
         sPct \o Itoa(f.ip) \o (IF f.fp < 0 THEN <<>> ELSE <<".">> \o Itoa(f.fp))
    [] f.kind = "pctdim" -> sPct \o RenderDim(f.n)
    [] f.kind = "pair" ->
         (IF f.bang THEN <<"!">> ELSE <<>>) \o RenderDim(f.w) \o <<",">> \o RenderDim(f.h)
    [] f.kind = "raw" -> f.txt

\* Size values as a caller may build them directly.
SizeStructs ==
  {Size(t, p * PctScale, w, h) : t \in SizeTypes, p \in -1..1, w \in -1..2, h \in -1..2}

\* ------------------------------------------------- net/http.ResponseWriter
\* The response as the standard library builds it: the header map the handler
\* edits, the status and the headers put on the wire by the first WriteHeader
\* (explicit, or implied by the first Write), and the body written so far.
\* `late` counts the WriteHeader calls made after the header was on the wire
\* (net/http logs them and leaves the status as it is).
NoHeaders == [ContentType |-> "", Location |-> <<>>, AllowOrigin |-> "", LastModified |-> ""]

NewResponse ==
  [wroteHeader |-> FALSE, status |-> 0, header |-> NoHeaders, sent |-> NoHeaders,
   body |-> <<>>, late |-> 0]

\* w.WriteHeader(code)
WriteHeader(w, code) ==
  IF w.wroteHeader THEN [w EXCEPT !.late = @ + 1]
  ELSE [w EXCEPT !.wroteHeader = TRUE, !.status = code, !.sent = w.header]

\* w.Write(chunk): the first Write sends the header with status 200
Write(w, chunk) ==
  LET h == IF w.wroteHeader THEN w ELSE WriteHeader(w, 200)
  IN [h EXCEPT !.body = Append(@, chunk)]

\* http.Error(w, msg, code)
HttpError(w, msg, code) ==
  Write(WriteHeader([w EXCEPT !.header.ContentType = "text/plain; charset=utf-8"], code),
        [kind |-> "error", msg |-> msg])

\* http.NotFound(w, req)
NotFound(w) == HttpError(w, "404 page not found", 404)

\* http.Redirect(w, req, url, code) for a GET request and a rooted url without
\* "." or ".." segments or repeated slashes, which path.Clean leaves as it is
Redirect(w, url, code) ==
  Write(WriteHeader([w EXCEPT !.header.Location = url,
                              !.header.ContentType = "text/html; charset=utf-8"], code),
        [kind |-> "redirect", href |-> url])

\* ------------------------------------------------------------ the server
\* --iiif-url "http://localhost:12415/iiif" (the host is shortened to "h")
BasePath == <<"/", "i", "i", "i", "f">>

\* ih.Base.String()
BaseURL == <<"h", "t", "t", "p", ":", "/", "/", "h">> \o BasePath

\* The FeatureSet NewIIIFHandler builds.
FeatureSet ==
  [RegionByPx |-> TRUE, RegionByPct |-> TRUE,
   SizeByWhListed |-> TRUE, SizeByW |-> TRUE, SizeByH |-> TRUE, SizeByPct |-> TRUE,
   SizeByWh |-> TRUE, SizeByForcedWh |-> TRUE, SizeAboveFull |-> TRUE,
   RotationBy90s |-> TRUE, RotationArbitrary |-> FALSE, Mirroring |-> TRUE,
   Default |-> TRUE, Color |-> TRUE, Gray |-> TRUE, Bitonal |-> TRUE,
   Jpg |-> TRUE, Png |-> TRUE, Gif |-> TRUE, Tif |-> TRUE,
   Jp2 |-> FALSE, Pdf |-> FALSE, Webp |-> FALSE,
   BaseUriRedirect |-> TRUE, Cors |-> TRUE, JsonldMediaType |-> TRUE,
   ProfileLinkHeader |-> FALSE, CanonicalLinkHeader |-> FALSE]

\* The text after rprefix + "/", or <<"\n">> (no request holds a line break)
\* when p does not start with it.  rprefix is `^` + u.Path.
NoMatch == <<"\n">>

AfterBase(p) ==
  IF HasPrefix(p, BasePath \o <<"/">>)
    THEN SubSeq(p, Len(BasePath) + 2, Len(p))
    ELSE NoMatch

\* ih.BaseRegex.FindStringSubmatch(p), BaseRegex = rprefix + `/([^/]+)`: the
\* submatches (the whole match, then the identifier), or <<>> for nil.
BaseRegexFind(p) ==
  LET rest == AfterBase(p)
      id == Split(rest, "/")[1]
  IN IF rest = NoMatch \/ id = <<>> THEN <<>>
     ELSE <<BasePath \o <<"/">> \o id, id>>

\* ih.BaseOnlyRegex.MatchString(p), BaseOnlyRegex = rprefix + `/[^/]+$`
BaseOnlyRegexMatch(p) ==
  LET rest == AfterBase(p)
  IN rest # NoMatch /\ rest # <<>> /\ Index(rest, <<"/">>) < 0

\* ih.InfoPathRegex.MatchString(p), InfoPathRegex = rprefix + `/([^/]+)/info.json$`.
\* The "." of the pattern is not escaped and matches any character.
InfoPathRegexMatch(p) ==
  LET rest == AfterBase(p)
      i == Index(rest, <<"/">>)
      tail == SubSeq(rest, i + 2, Len(rest))
  IN /\ rest # NoMatch
     /\ i > 0
     /\ Len(tail) = 9
     /\ SubSeq(tail, 1, 4) = <<"i", "n", "f", "o">>
     /\ SubSeq(tail, 6, 9) = <<"j", "s", "o", "n">>

\* p + "/info.json"
InfoLocation(p) == p \o <<"/", "i", "n", "f", "o", ".", "j", "s", "o", "n">>

\* ih.Base.String() + "/" + identifier.String()
InfoID(id) == BaseURL \o <<"/">> \o id

\* func acceptsLD(req): some Accept header line, split at its commas, holds an
\* entry that is exactly the JSON-LD media type.  `accept` is req.Header["Accept"].
LDType == <<"a", "p", "p", "l", "i", "c", "a", "t", "i", "o", "n", "/", "l", "d", "+", "j", "s", "o", "n">>

acceptsLD(accept) ==
  \E i \in 1..Len(accept) :
    LET entries == Split(accept[i], ",")
    IN \E j \in 1..Len(entries) : entries[j] = LDType

\* bytes.Replace(json, []byte("%ID%"), []byte(id), 1): the first occurrence only
Placeholder == <<"%", "I", "D", "%">>

\* bytes.Replace with n = -1: every occurrence
RECURSIVE ReplaceEvery(_, _, _)
ReplaceEvery(doc, old, new) ==
  LET i == Index(doc, old)
  IN IF i < 0 THEN doc
     ELSE SubSeq(doc, 1, i) \o new
            \o ReplaceEvery(SubSeq(doc, i + Len(old) + 1, Len(doc)), old, new)

ReplaceFirst(doc, old, new) ==
  LET i == Index(doc, old)
  IN IF i < 0 THEN doc
     ELSE SubSeq(doc, 1, i) \o new \o SubSeq(doc, i + Len(old) + 1, Len(doc))

\* ---------------------------------------- package iiif: the command (URL)
sBang == <<"!">>
qDefault == <<"d", "e", "f", "a", "u", "l", "t">>
qColor == <<"c", "o", "l", "o", "r">>
qGray == <<"g", "r", "a", "y">>
qBitonal == <<"b", "i", "t", "o", "n", "a", "l">>
fJpg == <<"j", "p", "g">>
fPng == <<"p", "n", "g">>
fGif == <<"g", "i", "f">>
fTif == <<"t", "i", "f">>
fJp2 == <<"j", "p", "2">>
fPdf == <<"p", "d", "f">>
fWebp == <<"w", "e", "b", "p">>

\* The region segment: full, a pixel box "x,y,w,h" or a percent box "pct:x,y,w,h".
StringToRegion(seg) ==
  LET pct == HasPrefix(seg, sPct)
      box == Split(IF pct THEN SubSeq(seg, 5, Len(seg)) ELSE seg, ",")
  IN IF seg = sFull THEN [Type |-> "full", ok |-> TRUE]
     ELSE IF Len(box) # 4 THEN [Type |-> "none", ok |-> FALSE]
     ELSE [Type |-> IF pct THEN "pct" ELSE "px",
           ok |-> Atoi(box[3]) > 0 /\ Atoi(box[4]) > 0]

\* The rotation segment: degrees in [0, 360), mirrored with a leading "!".
StringToRotation(seg) ==
  LET mirror == HasPrefix(seg, sBang)
      ds == IF mirror THEN Tail(seg) ELSE seg
  IN [Mirror |-> mirror, Degrees |-> Atoi(ds),
      ok |-> ds # <<>> /\ AllDigits(ds) /\ Atoi(ds) < 360]

Qualities == {qDefault, qColor, qGray, qBitonal}
Formats == {fJpg, fPng, fGif, fTif, fJp2, fPdf, fWebp}

\* iiif.NewURL(p): the path after the base must be
\* {identifier}/{region}/{size}/{rotation}/{quality}.{format}; each segment is
\* parsed by its own parser, the size by StringToSize, whose panic is NewURL's.
NewURL(p) ==
  LET rest == AfterBase(p)
      segs == Split(rest, "/")
      dot == Index(segs[5], <<".">>)
  IN IF rest = NoMatch \/ Len(segs) # 5 \/ dot < 0
       THEN Returned([grammar |-> FALSE])
     ELSE IF StringToSize(segs[3]).panic THEN Panicked
     ELSE Returned([grammar |-> TRUE,
                    ID |-> segs[1],
                    Region |-> StringToRegion(segs[2]),
                    Size |-> StringToSize(segs[3]).value,
                    Rotation |-> StringToRotation(segs[4]),
                    Quality |-> SubSeq(segs[5], 1, dot),
                    Format |-> SubSeq(segs[5], dot + 2, Len(segs[5]))])

\* u.Valid(): the grammar matched and every segment is valid
URLValid(u) ==
  /\ u.grammar
  /\ u.ID # <<>>
  /\ u.Region.ok
  /\ Valid(u.Size)
  /\ u.Rotation.ok
  /\ u.Quality \in Qualities
  /\ u.Format \in Formats

\* ih.FeatureSet.Supported(u): every kind the command uses is enabled
Supported(fs, u) ==
  /\ CASE u.Region.Type = "px" -> fs.RegionByPx
       [] u.Region.Type = "pct" -> fs.RegionByPct
       [] OTHER -> TRUE
  /\ CASE u.Size.Type = STScaleToWidth -> fs.SizeByW
       [] u.Size.Type = STScaleToHeight -> fs.SizeByH
       [] u.Size.Type = STScalePercent -> fs.SizeByPct
       [] u.Size.Type = STExact -> fs.SizeByForcedWh
       [] u.Size.Type = STBestFit -> fs.SizeByWh
       [] OTHER -> TRUE
  /\ (u.Rotation.Degrees = 0
        \/ (u.Rotation.Degrees % 90 = 0 /\ fs.RotationBy90s)
        \/ fs.RotationArbitrary)
  /\ (u.Rotation.Mirror => fs.Mirroring)
  /\ CASE u.Quality = qDefault -> fs.Default
       [] u.Quality = qColor -> fs.Color
       [] u.Quality = qGray -> fs.Gray
       [] u.Quality = qBitonal -> fs.Bitonal
       [] OTHER -> FALSE
  /\ CASE u.Format = fJpg -> fs.Jpg
       [] u.Format = fPng -> fs.Png
       [] u.Format = fGif -> fs.Gif
       [] u.Format = fTif -> fs.Tif
       [] u.Format = fJp2 -> fs.Jp2
       [] u.Format = fPdf -> fs.Pdf
       [] u.Format = fWebp -> fs.Webp
       [] OTHER -> FALSE

\* mime.TypeByExtension("." + string(u.Format)) for the formats the server encodes
MimeType(format) ==
  CASE format = fJpg -> "image/jpeg"
    [] format = fPng -> "image/png"
    [] format = fGif -> "image/gif"
    [] format = fTif -> "image/tiff"
    [] OTHER -> ""

\* ih.FeatureSet.Info() with Width, Height and ID filled in, as json.Marshal
\* writes it (a struct of strings, numbers and booleans: Marshal cannot fail)
InfoJSON(fs, id, width, height) ==
  [kind |-> "descriptor", ID |-> id, Width |-> width, Height |-> height,
   rotationArbitrary |-> fs.RotationArbitrary, jp2 |-> fs.Jp2]

\* ------------------------------------------------------------ environment
\* The one identifier with files under the tile path, and one without.
idAbc == <<"a", "b", "c">>
idZz == <<"z", "z">>

\* What NewImageResource finds at TilePath + "/" + identifier.Path().
ImageStates ==
  {[state |-> "missing"], [state |-> "unreadable"],
   [state |-> "ok", width |-> 800, height |-> 600],
   [state |-> "ok", width |-> 200, height |-> 100]}

\* The pieces override documents (filepath + "-info.json") are made of.
OverrideTokens == {<<"a">>, <<"%">>, Placeholder}

RECURSIVE Documents(_)
Documents(n) ==
  IF n = 0 THEN {<<>>}
  ELSE LET shorter == Documents(n - 1)
       IN shorter \cup {d \o t : d \in shorter, t \in OverrideTokens}

\* An override file that can be read holds at least one byte; <<>> stands for
\* a file ioutil.ReadFile cannot read (most often: there is none).
NoOverride == <<>>
Overrides == Documents(MaxTokens)

\* ---------------------------------------------------------------- requests
segOther == <<"o", "t", "h", "e", "r">>
segIiif == <<"i", "i", "i", "f">>
segInfoJson == <<"i", "n", "f", "o", ".", "j", "s", "o", "n">>
segInfoXJson == <<"i", "n", "f", "o", "X", "j", "s", "o", "n">>
segInfo == <<"i", "n", "f", "o">>
segJson == <<"j", "s", "o", "n">>
segBad == <<"b", "a", "d">>

RECURSIVE JoinPath(_)
JoinPath(segs) == IF segs = <<>> THEN <<>> ELSE <<"/">> \o Head(segs) \o JoinPath(Tail(segs))

Ids == {idAbc, idZz}
RegionSegs == {sFull, segBad}
SizeSegs == {sFull, <<"5", ",">>, <<"0", ",">>, <<"5">>, <<"!", "5", ",", "5">>}
RotationSegs == {<<"0">>, <<"4", "5">>}
QualityFormatSegs ==
  {qDefault \o <<".">> \o fJpg, qDefault \o <<".">> \o fJp2, segBad \o <<".">> \o fJpg}

\* The request paths, by what the client means them to be.
RequestForms ==
  {[kind |-> "foreign", segs |-> <<segOther, idAbc>>],
   [kind |-> "root", segs |-> <<segIiif>>]}
    \cup {[kind |-> "base", id |-> i, segs |-> <<segIiif, i>>] : i \in Ids}
    \cup {[kind |-> "info", id |-> i, segs |-> <<segIiif, i, t>>] :
            i \in Ids, t \in {segInfoJson, segInfoXJson}}
    \cup {[kind |-> "info", id |-> i, segs |-> <<segIiif, i, segInfo, segJson>>] : i \in {idAbc}}
    \cup {[kind |-> "short", id |-> i, segs |-> <<segIiif, i, sFull>>] : i \in Ids}
    \cup {[kind |-> "command", id |-> i, segs |-> <<segIiif, i, r, sz, ro, qf>>] :
            i \in Ids, r \in RegionSegs, sz \in SizeSegs, ro \in RotationSegs,
            qf \in QualityFormatSegs}

JSONType == <<"a", "p", "p", "l", "i", "c", "a", "t", "i", "o", "n", "/", "j", "s", "o", "n">>
HTMLType == <<"t", "e", "x", "t", "/", "h", "t", "m", "l">>

\* req.Header["Accept"]: the Accept header lines of a request
Accepts ==
  {<<>>,
   <<LDType>>,
   <<JSONType>>,
   <<HTMLType \o <<",">> \o LDType>>,
   <<HTMLType \o <<",", " ">> \o LDType>>,
   <<LDType \o <<" ", ",">> \o JSONType>>,
   <<JSONType, LDType>>}

\* Only the info.json handler reads the Accept header.
Requests ==
  {[uri |-> JoinPath(f.segs), accept |-> a, form |-> f] :
     f \in {g \in RequestForms : g.kind = "info"}, a \in Accepts}
    \cup {[uri |-> JoinPath(f.segs), accept |-> <<>>, form |-> f] :
            f \in {g \in RequestForms : g.kind # "info"}}

NoRequest == [uri |-> <<>>, accept |-> <<>>, form |-> [kind |-> "none"]]
NoURL == [grammar |-> FALSE]

\* ------------------------------------------------------------------ state
VARIABLES
  image,      \* the image file of identifier "abc" under the tile path
  override,   \* its override document, NoOverride when there is none
  pc,         \* where the request in progress stands in Route / Info / Command
  req,        \* the request in progress
  w,          \* its http.ResponseWriter
  handles,    \* decode handles NewImageResource opened for it and nothing released
  u,          \* the *iiif.URL handed to Command
  json,       \* Info's json: the bytes to be written
  events,     \* what the request did, in order
  prev,       \* the last successful info.json response
  sizeForm,   \* the size wire form last handed to StringToSize
  sizeIn,     \* its wire string
  sizeOut,    \* what StringToSize did with it
  validOut    \* what Valid() returned for the Size in sizeOut

vars == <<image, override, pc, req, w, handles, u, json, events, prev,
          sizeForm, sizeIn, sizeOut, validOut>>

envVars == <<image, override>>
sizeVars == <<sizeForm, sizeIn, sizeOut, validOut>>
reqVars == <<pc, req, w, handles, u, json, events, prev>>

NoJSON == [kind |-> "none"]
NoPrev == [set |-> FALSE]
NotValidated == [set |-> FALSE]

ImageAt(id) == IF id = idAbc THEN image ELSE [state |-> "missing"]
OverrideAt(id) == IF id = idAbc THEN override ELSE NoOverride

\* NewImageResource(identifier, filepath): the resource with its decode handle
\* open, ErrImageDoesNotExist when there is no such file, or another error.
NewImageResource(id) ==
  CASE ImageAt(id).state = "missing" -> [err |-> "ErrImageDoesNotExist"]
    [] ImageAt(id).state = "unreadable" -> [err |-> "unable to read image"]
    [] OTHER -> [err |-> "", Width |-> ImageAt(id).width, Height |-> ImageAt(id).height]

\* res.Apply(u): decodes and transforms, or fails; either way it lets go of
\* the native decode resources when it returns.
Apply(open, ok) == [handles |-> open - 1, err |-> IF ok THEN "" ELSE "decode failed"]

\* identifier := iiif.ID(parts[1])
Identifier(p) == BaseRegexFind(p)[2]

InitRequest ==
  /\ pc = "idle"
  /\ req = NoRequest
  /\ w = NewResponse
  /\ handles = 0
  /\ u = NoURL
  /\ json = NoJSON
  /\ events = <<>>
  /\ prev = NoPrev

InitSizeVars ==
  /\ sizeForm = [kind |-> "none"]
  /\ sizeIn = <<>>
  /\ sizeOut = Returned(Size(STNone, 0, 0, 0))
  /\ validOut = NotValidated

Init ==
  /\ image \in ImageStates
  /\ override \in Overrides
  /\ InitRequest
  /\ InitSizeVars

\* ------------------------------------------------------- the HTTP handler
\* The server hands a request to ih.Route with a fresh ResponseWriter.
Receive ==
  /\ pc = "idle"
  /\ \E r \in Requests : req' = r
  /\ pc' = "route"
  /\ w' = NewResponse
  /\ handles' = 0
  /\ u' = NoURL
  /\ json' = NoJSON
  /\ events' = <<>>
  /\ UNCHANGED <<envVars, prev, sizeVars>>

\* func newImageResError(w, err)
newImageResError(resp, err) ==
  IF err = "ErrImageDoesNotExist"
    THEN HttpError(resp, "Image resource does not exist", 404)
    ELSE HttpError(resp, err, 500)

\* Route opening the image before anything else, as the handler once did: a
\* bare identifier without an image is then answered 404.
Route_ResourceFirst ==
  /\ pc = "route"
  /\ LET p == req.uri
         parts == BaseRegexFind(p)
     IN IF parts = <<>>
          THEN w' = NotFound(w) /\ pc' = "done"
        ELSE IF ImageAt(parts[2]).state = "missing"
          THEN w' = newImageResError(w, "ErrImageDoesNotExist") /\ pc' = "done"
        ELSE IF BaseOnlyRegexMatch(p)
          THEN w' = Redirect(w, InfoLocation(p), 303) /\ pc' = "done"
        ELSE IF InfoPathRegexMatch(p)
          THEN w' = w /\ pc' = "info"
        ELSE w' = w /\ pc' = "open"
  /\ UNCHANGED <<envVars, req, handles, u, json, events, prev, sizeVars>>

\* Route, up to the dispatch: the base match, the redirect of a bare
\* identifier, and the choice between Info and the command path.
Route ==
  /\ pc = "route"
  /\ LET p == req.uri
         parts == BaseRegexFind(p)
     IN IF parts = <<>>
          THEN w' = NotFound(w) /\ pc' = "done"
        ELSE IF BaseOnlyRegexMatch(p)
          THEN w' = Redirect(w, InfoLocation(p), 303) /\ pc' = "done"
        ELSE IF InfoPathRegexMatch(p)
          THEN w' = w /\ pc' = "info"
        ELSE w' = w /\ pc' = "open"
  /\ UNCHANGED <<envVars, req, handles, u, json, events, prev, sizeVars>>

\* Route: res, err := NewImageResource(identifier, filepath), and the error reply
RouteOpen ==
  /\ pc = "open"
  /\ LET res == NewImageResource(Identifier(req.uri))
     IN IF res.err # ""
          THEN /\ w' = newImageResError(w, res.err)
               /\ pc' = "done"
               /\ UNCHANGED <<handles, events>>
          ELSE /\ handles' = handles + 1
               /\ events' = Append(events, "open")
               /\ pc' = "parse"
               /\ w' = w
  /\ UNCHANGED <<envVars, req, u, json, prev, sizeVars>>

\* Route: iiif.NewURL(p), u.Valid(), and the 400 of an invalid command.  A
\* panic in NewURL leaves Route; net/http recovers it and drops the connection.
RouteParse ==
  /\ pc = "parse"
  /\ LET r == NewURL(req.uri)
     IN IF r.panic
          THEN /\ pc' = "panicked"
               /\ events' = Append(events, "panic")
               /\ UNCHANGED <<w, u>>
        ELSE IF URLValid(r.value)
          THEN /\ u' = r.value
               /\ pc' = "command"
               /\ events' = Append(events, "grammar")
               /\ w' = w
        ELSE /\ w' = HttpError(w, "Invalid IIIF request", 400)
             /\ pc' = "done"
             /\ events' = Append(events, "grammar")
             /\ u' = u
  /\ UNCHANGED <<envVars, req, handles, json, prev, sizeVars>>

\* sendHeaders(w, req, res.FilePath): the Last-Modified header from the source
\* file's modification time; the request's cache validator may already answer
\* it (304), and a file that cannot be examined is an error (500).
sendHeaders(resp, outcome) ==
  CASE outcome = "ok" -> [resp EXCEPT !.header.LastModified = "mtime"]
    [] outcome = "notmodified" ->
         WriteHeader([resp EXCEPT !.header.LastModified = "mtime"], 304)
    [] OTHER -> HttpError(resp, "Unable to access file", 500)

\* Command: if err := sendHeaders(...); err != nil { return }
CommandSendHeaders ==
  /\ pc = "command"
  /\ \E outcome \in {"ok", "notmodified", "error"} :
       /\ w' = sendHeaders(w, outcome)
       /\ pc' = IF outcome = "ok" THEN "supported" ELSE "done"
  /\ events' = Append(events, "headers")
  /\ UNCHANGED <<envVars, req, handles, u, json, prev, sizeVars>>

\* Command running res.Apply(u) before it asks whether the request is supported.
CommandSupported_AfterApply ==
  /\ pc = "supported"
  /\ events' = events \o <<"apply", "feature">>
  /\ IF Supported(FeatureSet, u)
       THEN w' = w /\ pc' = "apply"
       ELSE w' = HttpError(w, "Feature not supported", 501) /\ pc' = "done"
  /\ UNCHANGED <<envVars, req, handles, u, json, prev, sizeVars>>

\* Command: if !ih.FeatureSet.Supported(u) { 501 }
CommandSupported ==
  /\ pc = "supported"
  /\ events' = Append(events, "feature")
  /\ IF Supported(FeatureSet, u)
       THEN w' = w /\ pc' = "apply"
       ELSE w' = HttpError(w, "Feature not supported", 501) /\ pc' = "done"
  /\ UNCHANGED <<envVars, req, handles, u, json, prev, sizeVars>>

\* Command: img, err := res.Apply(u), the 500 of a failed Apply, and the
\* Content-Type of the image
CommandApply ==
  /\ pc = "apply"
  /\ events' = Append(events, "apply")
  /\ \E ok \in BOOLEAN :
       LET r == Apply(handles, ok)
       IN /\ handles' = r.handles
          /\ IF r.err = ""
               THEN /\ w' = [w EXCEPT !.header.ContentType = MimeType(u.Format)]
                    /\ pc' = "encode"
               ELSE /\ w' = HttpError(w, r.err, 500)
                    /\ pc' = "done"
  /\ UNCHANGED <<envVars, req, u, json, prev, sizeVars>>

RECURSIVE WriteChunks(_, _)
WriteChunks(resp, k) ==
  IF k = 0 THEN resp ELSE Write(WriteChunks(resp, k - 1), [kind |-> "image", n |-> k])

\* EncodeImage(w, img, u.Format): the encoder streams the image to w in
\* chunks; it ends after the last one, or fails after any number of them.
EncodeImage(resp, k, ok) ==
  [resp |-> WriteChunks(resp, k), err |-> IF ok THEN "" ELSE "encode failed"]

\* Command: if err = EncodeImage(w, img, u.Format); err != nil { 500 }
CommandEncode ==
  /\ pc = "encode"
  /\ events' = Append(events, "encode")
  /\ \E k \in 0..MaxChunks, ok \in BOOLEAN :
       /\ ok => k = MaxChunks
       /\ LET e == EncodeImage(w, k, ok)
          IN w' = IF e.err # "" THEN HttpError(e.resp, "Unable to encode", 500) ELSE e.resp
  /\ pc' = "done"
  /\ UNCHANGED <<envVars, req, handles, u, json, prev, sizeVars>>

\* func (ih *IIIFHandler) loadInfoJSONOverride(identifier, filepath): nil
\* (here <<>>) when the file cannot be read, else its bytes with the id put in
loadInfoJSONOverride(id) ==
  IF OverrideAt(id) = NoOverride THEN <<>>
  ELSE ReplaceFirst(OverrideAt(id), Placeholder, InfoID(id))

\* Info: json := ih.loadInfoJSONOverride(identifier, filepath); if json == nil ...
Info ==
  /\ pc = "info"
  /\ LET bytes == loadInfoJSONOverride(Identifier(req.uri))
     IN IF bytes = <<>>
          THEN json' = NoJSON /\ pc' = "build"
          ELSE json' = [kind |-> "bytes", data |-> bytes] /\ pc' = "write"
  /\ events' = Append(events, "override")
  /\ UNCHANGED <<envVars, req, w, handles, u, prev, sizeVars>>

\* func (ih *IIIFHandler) buildInfoJSON(w, identifier, filepath), and Info's
\* return when it fails
buildInfoJSON ==
  /\ pc = "build"
  /\ LET id == Identifier(req.uri)
         res == NewImageResource(id)
     IN IF res.err # ""
          THEN /\ w' = newImageResError(w, res.err)
               /\ pc' = "done"
               /\ UNCHANGED <<handles, json>>
          ELSE /\ handles' = handles + 1
               /\ json' = InfoJSON(FeatureSet, InfoID(id), res.Width, res.Height)
               /\ pc' = "write"
               /\ w' = w
  /\ events' = Append(events, "build")
  /\ UNCHANGED <<envVars, req, u, prev, sizeVars>>

\* Info: the content type chosen by the client, the CORS header, w.Write(json)
InfoWrite ==
  /\ pc = "write"
  /\ LET ct == IF acceptsLD(req.accept) THEN "application/ld+json" ELSE "application/json"
     IN w' = Write([w EXCEPT !.header.ContentType = ct, !.header.AllowOrigin = "*"], json)
  /\ pc' = "done"
  /\ UNCHANGED <<envVars, req, handles, u, json, events, prev, sizeVars>>

\* A successful info.json response: what was asked, and what was sent.
InfoSucceeded == pc = "done" /\ req.form.kind = "info" /\ w.status = 200

\* Route has returned (or panicked); the server is ready for the next request.
Finish ==
  /\ pc \in {"done", "panicked"}
  /\ prev' = IF InfoSucceeded
               THEN [set |-> TRUE, id |-> Identifier(req.uri),
                     ContentType |-> w.sent.ContentType, body |-> w.body]
               ELSE prev
  /\ pc' = "idle"
  /\ req' = NoRequest
  /\ w' = NewResponse
  /\ handles' = 0
  /\ u' = NoURL
  /\ json' = NoJSON
  /\ events' = <<>>
  /\ UNCHANGED <<envVars, sizeVars>>

Next ==
  \/ Receive
  \/ Route
  \/ RouteOpen
  \/ RouteParse
  \/ CommandSendHeaders
  \/ CommandSupported
  \/ CommandApply
  \/ CommandEncode
  \/ Info
  \/ buildInfoJSON
  \/ InfoWrite
  \/ Finish

Spec == Init /\ [][Next]_vars

\* ----------------------------------------------------- the size functions
\* A caller parses a size segment.
SizeParse ==
  /\ sizeForm.kind = "none"
  /\ \E f \in SizeForms :
       /\ sizeForm' = f
       /\ sizeIn' = Render(f)
       /\ sizeOut' = StringToSize(Render(f))
  /\ validOut' = NotValidated
  /\ UNCHANGED <<envVars, reqVars>>

\* A caller asks whether the parsed Size is valid.
SizeValidate ==
  /\ sizeForm.kind \notin {"none", "struct"}
  /\ ~sizeOut.panic
  /\ ~validOut.set
  /\ validOut' = [set |-> TRUE, v |-> Valid(sizeOut.value)]
  /\ UNCHANGED <<envVars, reqVars, sizeForm, sizeIn, sizeOut>>

\* A caller builds a Size value itself and asks whether it is valid.
SizeValidateStruct ==
  /\ sizeForm.kind = "none"
  /\ \E sz \in SizeStructs :
       /\ sizeOut' = Returned(sz)
       /\ validOut' = [set |-> TRUE, v |-> Valid(sz)]
  /\ sizeForm' = [kind |-> "struct"]
  /\ sizeIn' = <<>>
  /\ UNCHANGED <<envVars, reqVars>>

\* The caller is done with the Size.
SizeDrop ==
  /\ sizeForm.kind # "none"
  /\ sizeForm' = [kind |-> "none"]
  /\ sizeIn' = <<>>
  /\ sizeOut' = Returned(Size(STNone, 0, 0, 0))
  /\ validOut' = NotValidated
  /\ UNCHANGED <<envVars, reqVars>>

InitSize ==
  /\ image = [state |-> "missing"]
  /\ override = NoOverride
  /\ InitRequest
  /\ InitSizeVars

NextSize ==
  \/ SizeParse
  \/ SizeValidate
  \/ SizeValidateStruct
  \/ SizeDrop

SpecSize == InitSize /\ [][NextSize]_vars

\* ================================================================ claims
\* ------------------------------------------------------------------- C3
\* C3: StringToSize is total: for every input string, the empty string, a
\* string without a comma and the bare prefix "pct:" among them, it returns
\* a Size and does not fail.
C3_StringToSizeTotal ==
  sizeForm.kind \notin {"none", "struct"} => ~sizeOut.panic

\* ------------------------------------------------------------------- C4
\* The number a dimension of a wire form stands for (nothing stands for 0).
DimNumber(d) ==
  CASE d.cls = "num" -> d.n
    [] d.cls = "neg" -> 0 - d.n
    [] OTHER -> 0

\* C4: StringToSize maps each wire form to its addressing mode: "full" to
\* Full; "pct:<n>" to ScalePercent with Percent = n; "!w,h" to BestFit with W
\* and H from the pair; "w,h" to ScaleToHeight{H} when w is empty, else to
\* ScaleToWidth{W} when h is empty, else to Exact{W, H}; never to STNone.
C4_WireForms ==
  /\ sizeForm.kind = "full" => sizeOut = Returned(Size(STFull, 0, 0, 0))
  /\ sizeForm.kind = "pct" =>
       /\ ~sizeOut.panic
       /\ sizeOut.value.Type = STScalePercent
       /\ sizeOut.value.Percent * 10 =
            (sizeForm.ip * 10 + (IF sizeForm.fp < 0 THEN 0 ELSE sizeForm.fp)) * PctScale
  /\ sizeForm.kind = "pair" =>
       /\ ~sizeOut.panic
       /\ sizeOut.value.Type # STNone
       /\ sizeOut.value.Type =
            (IF sizeForm.bang THEN STBestFit
             ELSE IF sizeForm.w.cls = "empty" THEN STScaleToHeight
             ELSE IF sizeForm.h.cls = "empty" THEN STScaleToWidth
             ELSE STExact)
       /\ sizeForm.w.cls # "junk" => sizeOut.value.W = DimNumber(sizeForm.w)
       /\ sizeForm.h.cls # "junk" => sizeOut.value.H = DimNumber(sizeForm.h)

\* "!11,5" was parsed, to BestFit{11, 5}.
C4_Witness ==
  /\ sizeForm.kind = "pair"
  /\ sizeForm.bang
  /\ sizeForm.w = [cls |-> "num", n |-> 11]
  /\ sizeForm.h = [cls |-> "num", n |-> 5]
  /\ sizeIn = <<"!", "1", "1", ",", "5">>
  /\ sizeOut = Returned(Size(STBestFit, 0, 11, 5))

\* ------------------------------------------------------------------- C5
\* The sizes the size invariant admits.
SizeInvariant(s) ==
  \/ s.Type = STFull
  \/ s.Type = STScaleToWidth /\ s.W > 0
  \/ s.Type = STScaleToHeight /\ s.H > 0
  \/ s.Type = STScalePercent /\ s.Percent > 0
  \/ s.Type \in {STExact, STBestFit} /\ s.W > 0 /\ s.H > 0

\* A dimension written as zero, as a negative number or as no number.
BadDim(d) == d.cls \in {"neg", "junk"} \/ (d.cls = "num" /\ d.n = 0)

\* The wire form has such a dimension.
HasBadDim(f) ==
  \/ f.kind = "pair" /\ (BadDim(f.w) \/ BadDim(f.h))
  \/ f.kind = "pctdim" /\ BadDim(f.n)
  \/ f.kind = "pct" /\ f.ip = 0 /\ f.fp <= 0

\* C5: Valid() is true exactly for the sizes the invariant admits (so: false
\* for STNone), and false for every Size StringToSize makes of a wire string
\* with a zero, negative or non-numeric dimension.
C5_ValidExactly ==
  validOut.set =>
    /\ validOut.v <=> SizeInvariant(sizeOut.value)
    /\ HasBadDim(sizeForm) => ~validOut.v

\* "5,a" was parsed (to Exact{5, 0}) and found invalid.
C5_Witness ==
  /\ validOut.set
  /\ ~validOut.v
  /\ sizeForm.kind = "pair"
  /\ sizeIn = <<"5", ",", "a">>
  /\ sizeOut.value.Type = STExact

\* --------------------------------------------------------- the handler
\* Route has returned, or has been left by a panic.
Finished == pc \in {"done", "panicked"}

\* The response holds an error text among its body chunks.
HasError(resp, msg) ==
  \E i \in 1..Len(resp.body) : resp.body[i].kind = "error" /\ resp.body[i].msg = msg

\* ------------------------------------------------------------------- C1
\* C1: the status follows the error mapping: a path that is no valid command
\* gets 400 and a valid but unsupported command 501, whatever else holds of
\* the request; a missing resource gets 404; a failed Apply or encoder 500.
C1_ErrorMapping ==
  (Finished /\ req.form.kind \in {"command", "short"}) =>
    LET r == NewURL(req.uri)
        malformed == r.panic \/ ~URLValid(r.value)
        unsupported == ~malformed /\ ~Supported(FeatureSet, r.value)
    IN /\ malformed => w.status = 400
       /\ unsupported => w.status = 501
       /\ (~malformed /\ ~unsupported /\ ImageAt(req.form.id).state = "missing")
            => w.status = 404
       /\ (HasError(w, "decode failed") \/ HasError(w, "Unable to encode"))
            => w.status = 500

\* ------------------------------------------------------------------- C2
\* C2: a request for exactly {base}/{id} is answered 303 with the location
\* {base}/{id}/info.json, and with nothing else.
C2_BaseRedirect ==
  (Finished /\ req.form.kind = "base") =>
    /\ pc = "done"
    /\ w.status = 303
    /\ w.sent.Location = JoinPath(Append(req.form.segs, segInfoJson))
    /\ w.sent.Location = req.uri \o <<"/">> \o segInfoJson
    /\ Len(w.body) = 1
    /\ w.body[1].kind = "redirect"
    /\ w.late = 0
    /\ events = <<>>

\* /iiif/abc was redirected although abc has no image.
C2_Witness ==
  /\ pc = "done"
  /\ req.form.kind = "base"
  /\ req.form.id = idAbc
  /\ image.state = "missing"
  /\ w.status = 303

\* ------------------------------------------------------------------- C6
\* data is doc with its first %ID%, if it has one, replaced by url.
FirstPlaceholderReplaced(doc, url, data) ==
  LET at(i) == SubSeq(doc, i + 1, i + Len(Placeholder)) = Placeholder
      places == {i \in 0..(Len(doc) - Len(Placeholder)) : at(i)}
  IN \/ places = {} /\ data = doc
     \/ \E i \in places :
          /\ \A j \in places : i <= j
          /\ data = SubSeq(doc, 1, i) \o url \o SubSeq(doc, i + Len(Placeholder) + 1, Len(doc))

RECURSIVE TrimSpace(_)
TrimSpace(t) ==
  IF t # <<>> /\ Head(t) = " " THEN TrimSpace(Tail(t))
  ELSE IF t # <<>> /\ t[Len(t)] = " " THEN TrimSpace(SubSeq(t, 1, Len(t) - 1))
  ELSE t

\* The Accept header lists the JSON-LD media type among its entries.
ListsLD(accept) ==
  \E i \in 1..Len(accept) :
    \E j \in 1..Len(Split(accept[i], ",")) : TrimSpace(Split(accept[i], ",")[j]) = LDType

\* C7: a successful info.json response has the JSON-LD content type when the
\* Accept header lists it among its comma-separated entries, with or without
\* whitespace around it, and application/json otherwise; the body is the same
\* either way.
C7_ContentNegotiation ==
  InfoSucceeded =>
    /\ w.sent.ContentType =
         (IF ListsLD(req.accept) THEN "application/ld+json" ELSE "application/json")
    /\ (prev.set /\ prev.id = Identifier(req.uri)) => prev.body = w.body

\* ------------------------------------------------------------------- C8
\* C8: no request ends while it holds a decode handle NewImageResource
\* opened and nothing released.
C8_HandlesReleased == Finished => handles = 0

\* ------------------------------------------------------------------- C9
\* C9: the status is not set again once body bytes are written, and no error
\* text follows image bytes in a body.
C9_NothingAfterBody ==
  /\ w.late = 0
  /\ \A i, j \in 1..Len(w.body) :
       (i < j /\ w.body[i].kind = "image") => w.body[j].kind # "error"

\* ------------------------------------------------------------------ C10
Occurs(e) == \E i \in 1..Len(events) : events[i] = e

Before(a, b) ==
  \A j \in 1..Len(events) : events[j] = b => \E i \in 1..(j - 1) : events[i] = a

\* C10, as claimed: a request that ends in 400 or 501 has opened no decode
\* handle and run no transformation.
C10_CheapReject ==
  (pc = "done" /\ w.status \in {400, 501}) => (~Occurs("open") /\ ~Occurs("apply"))

\* C10, amended: on the command path NewImageResource opens the decode handle
\* first; the grammar check and the feature check then both come before
\* res.Apply, and a request that ends in 400 or 501 has run neither Apply
\* nor the encoder.
C10_ChecksBeforeApply ==
  /\ (pc = "done" /\ w.status \in {400, 501}) =>
       (events[1] = "open" /\ ~Occurs("apply") /\ ~Occurs("encode"))
  /\ Before("open", "grammar")
  /\ Before("grammar", "feature")
  /\ Before("grammar", "apply")
  /\ Before("feature", "apply")
  /\ Before("apply", "encode")

\* A valid command with an unsupported rotation was refused with 501 after
\* the handle was opened and before Apply.
C10_Witness ==
  /\ pc = "done"
  /\ w.status = 501
  /\ events = <<"open", "grammar", "headers", "feature">>

====
